---- MODULE Spec2Model ----
(***************************************************************************)
(* Review-collector: the GET /api/scrape-reviews route                     *)
(* (src/app/api/scrape-reviews/route.ts).                                  *)
(*                                                                         *)
(* A request is a process whose control points are the awaits of the       *)
(* handler: GET -> withRetry -> scrapeMapReviews -> browser steps.  The    *)
(* browser, the page and the timers are the environment: every await on    *)
(* them either completes or throws, chosen nondeterministically.           *)
(***************************************************************************)
EXTENDS Integers, Sequences, FiniteSets, TLC

(***************************************************************************)
(* Bounds of the model.                                                    *)
(***************************************************************************)
NumReqs == 2          \* requests the server may receive
MaxTicks == 2         \* clock ticks the model lets pass
TicksPerTTL == 2      \* clock ticks in one cache TTL window
MaxFeed == 1          \* largest number of reviews a scroll result carries
MaxInitial == 3       \* most reviews a feed shows before the first scroll
MaxStep == 4          \* most reviews one scroll reveals
MaxReveals == 11      \* most scrolls that reveal reviews
MaxLabel == 3         \* longest total-reviews label
MaxQuery == 3         \* longest query whose cache key is computed
MaxText == 2          \* longest text of an element of a review item
MaxItems == 2         \* most review items in a document
MaxSearches == 3      \* searches the Dashboard issues
MaxFetches == 2       \* calls of autocomplete that may be pending at once

(***************************************************************************)
(* CONFIG of route.ts.                                                     *)
(***************************************************************************)
CACHE_TTL == 3600
RETRY_ATTEMPTS == 3
RetryBaseMin == 1000
RetryBaseMax == 3000
MAX_REVIEWS == 25
MAX_SCROLL_ATTEMPTS == 10

Reqs == 1..NumReqs
TickMs == (CACHE_TTL * 1000) \div TicksPerTTL
Times == {k * TickMs : k \in 0..MaxTicks}

(***************************************************************************)
(* Strings are sequences of characters; Null is a missing query parameter. *)
(***************************************************************************)
Null == <<"null">>
SearchTerms == {Null, <<>>, <<"a">>, <<"A">>, <<"b">>}

Pow2(n) == IF n = 0 THEN 1 ELSE IF n = 1 THEN 2 ELSE IF n = 2 THEN 4 ELSE 8

\* !searchTerm: null and the empty string are falsy.
\* (InvalidQueryNullOnly: the fault of testing for null alone.)
InvalidQueryNullOnly(term) == term = Null
InvalidQuery(term) == term = Null \/ term = <<>>

\* String.prototype.toLowerCase, one character.
LowerChar(c) == IF c = "A" THEN "a" ELSE IF c = "B" THEN "b" ELSE c

RECURSIVE toLowerCase(_)
toLowerCase(s) ==
    IF s = <<>> THEN <<>> ELSE <<LowerChar(Head(s))>> \o toLowerCase(Tail(s))

\* encodeURIComponent, one character: unreserved characters stay, a space
\* becomes %20 and a percent sign %25.
\* (EncodeCharKeepingPercent: the fault of not escaping the escape sign.)
EncodeCharKeepingPercent(c) == IF c = " " THEN <<"%", "2", "0">> ELSE <<c>>
EncodeChar(c) ==
    IF c = " " THEN <<"%", "2", "0">>
    ELSE IF c = "%" THEN <<"%", "2", "5">>
    ELSE <<c>>

RECURSIVE encodeURIComponent(_)
encodeURIComponent(s) ==
    IF s = <<>> THEN <<>> ELSE EncodeChar(Head(s)) \o encodeURIComponent(Tail(s))

CacheKey(term) == encodeURIComponent(toLowerCase(term))

\* No cache key has been computed.
NoKey == <<"no key">>

\* The queries whose keys are compared: letters in both cases, a character
\* that is escaped, the escape sign and the digits of an escape.
QueryChars == {"a", "A", " ", "%", "2", "0"}
Queries == UNION {[1..n -> QueryChars] : n \in 1..MaxQuery}

(***************************************************************************)
(* Values returned by scrapeMapReviews.                                    *)
(***************************************************************************)
NoInfo == "{}"
BusinessInfos == {NoInfo, "Cafe"}

NoFeedFound == "No reviews found for this location"
FeedContainerMissing == "Reviews container not found"
TechnicalIssue == "Failed to scrape reviews due to technical issues"
NoError == ""

ErrorResult(msg) == [error |-> msg, businessInfo |-> NoInfo, reviews |-> <<>>]
ScrapeResult(info, revs) == [error |-> NoError, businessInfo |-> info, reviews |-> revs]
\* (HasErrorOrEmpty: the fault of taking an empty review list for an error.)
HasErrorOrEmpty(result) == result.error # NoError \/ result.reviews = <<>>
HasError(result) == result.error # NoError
NoResult == [error |-> "none", businessInfo |-> NoInfo, reviews |-> <<>>]

FeedResults == {[i \in 1..k |-> i] : k \in 0..MaxFeed}

\* Errors thrown by an attempt: the kind and the attempt that threw it.
NoErr == [kind |-> "none", at |-> 0]
Err(kind, at) == [kind |-> kind, at |-> at]

NoResponse == [status |-> 0, body |-> NoResult, error |-> NoError, requestId |-> 0]

\* GET, line 135: the body of the 500 response.
GenericFailure == "Failed to scrape reviews"

(***************************************************************************)
(* The review feed of a page.  `count` is the number of SELECTORS.         *)
(* REVIEW_ITEM elements in the document.  A feed that "grows" shows        *)
(* `initial` items and reveals `step` more on each of its first `reveals`  *)
(* scrolls (`left` of them are still to come); a feed that "flaps" is a    *)
(* virtualised list whose item count goes up by `step` and back down on    *)
(* alternate scrolls.                                                      *)
(***************************************************************************)
NoFeed == [kind |-> "none", initial |-> 0, step |-> 0, reveals |-> 0,
           count |-> 0, left |-> 0]

Feeds ==
    {[kind |-> "grows", initial |-> k, step |-> g, reveals |-> n,
      count |-> k, left |-> n] :
        k \in 0..MaxInitial, g \in 1..MaxStep, n \in 0..MaxReveals}
    \cup
    {[kind |-> "flaps", initial |-> k, step |-> g, reveals |-> 0,
      count |-> k, left |-> 0] :
        k \in 0..MaxInitial, g \in 1..MaxStep}

\* smoothScroll and the scrolling delay, lines 285-287: what the feed shows
\* afterwards.
Scrolled(f) ==
    IF f.kind = "grows"
    THEN IF f.left > 0
         THEN [f EXCEPT !.count = @ + f.step, !.left = @ - 1]
         ELSE f
    ELSE [f EXCEPT !.count = IF @ = f.initial THEN f.initial + f.step
                             ELSE f.initial]

\* extractReviews, lines 261-278: one record per review item, in document
\* order; a record is identified by the position of its item in the feed.
\* (extractReviewsReversed: the fault of returning the items last first.)
extractReviewsReversed(f) == [i \in 1..f.count |-> f.count + 1 - i]
extractReviews(f) == [i \in 1..f.count |-> i]

(***************************************************************************)
(* extractBusinessInfo, line 236: the total-reviews label.                 *)
(***************************************************************************)
NoElement == <<"no element">>
LabelChars == {"0", "7", ",", "r"}
Labels ==
    {NoElement} \cup UNION {[1..n -> LabelChars] : n \in 0..MaxLabel}

Undefined == [defined |-> FALSE, value |-> 0]
Number(n) == [defined |-> TRUE, value |-> n]
NaN == [defined |-> TRUE, value |-> -1]
NotRead == [defined |-> FALSE, value |-> -1]

IsDigit(c) == c \in {"0", "1", "2", "3", "4", "5", "6", "7", "8", "9"}

DigitValue(c) ==
    CASE c = "0" -> 0 [] c = "1" -> 1 [] c = "2" -> 2 [] c = "3" -> 3
      [] c = "4" -> 4 [] c = "5" -> 5 [] c = "6" -> 6 [] c = "7" -> 7
      [] c = "8" -> 8 [] OTHER -> 9

\* text.replace(/[^0-9]/g, '')
RECURSIVE stripNonDigits(_)
stripNonDigits(s) ==
    IF s = <<>> THEN <<>>
    ELSE (IF IsDigit(Head(s)) THEN <<Head(s)>> ELSE <<>>) \o stripNonDigits(Tail(s))

\* x || '0': the empty string is falsy.
OrZero(s) == IF s = <<>> THEN <<"0">> ELSE s

RECURSIVE DecimalValue(_)
DecimalValue(s) ==
    IF s = <<>> THEN 0
    ELSE DecimalValue(SubSeq(s, 1, Len(s) - 1)) * 10 + DigitValue(s[Len(s)])

\* parseInt of a string of digits; parseInt('') is NaN.
parseInt(s) == IF s = <<>> THEN NaN ELSE Number(DecimalValue(s))

\* extractBusinessInfo, lines 235-237: totalReviews.
totalReviewsOf(l) ==
    IF l = NoElement THEN Undefined ELSE parseInt(OrZero(stripNonDigits(l)))

(***************************************************************************)
(* extractReviews, lines 261-278: the elements of one review item and the  *)
(* record made of them.  An element is its textContent, a string, or is    *)
(* missing; the rating element, when present, carries an aria-label        *)
(* attribute, which may be missing, and its rendered text.                 *)
(***************************************************************************)
TextChars == {" ", "x"}
Texts == UNION {[1..n -> TextChars] : n \in 0..MaxText}
NoAttribute == <<"no attribute">>
RenderedTexts == {<<>>, <<"x">>}
NoStars == [present |-> FALSE, label |-> NoAttribute, text |-> <<>>]
StarsElements ==
    {NoStars}
    \cup [present : {TRUE}, label : {NoAttribute} \cup Texts, text : RenderedTexts]
TextElements == {NoElement} \cup Texts

\* The value of an optional chain that met null or undefined.
Missing == <<"undefined">>

Anonymous == <<"Anonymous">>
NoRating == <<"No rating">>
NoReviewText == <<"No review text">>

\* String.prototype.trim
RECURSIVE trimStart(_)
trimStart(s) ==
    IF s # <<>> /\ Head(s) = " " THEN trimStart(Tail(s)) ELSE s

RECURSIVE trimEnd(_)
trimEnd(s) ==
    IF s # <<>> /\ s[Len(s)] = " " THEN trimEnd(SubSeq(s, 1, Len(s) - 1)) ELSE s

trim(s) == trimEnd(trimStart(s))

\* el?.textContent?.trim()
textOf(el) == IF el = NoElement THEN Missing ELSE trim(el)

\* el?.getAttribute('aria-label')?.trim()
\* (labelFromRenderedText: the fault of reading the rendered text of the
\* rating element instead of its label.)
labelFromRenderedText(el) == IF ~el.present THEN Missing ELSE trim(el.text)
labelOf(el) ==
    IF ~el.present THEN Missing
    ELSE IF el.label = NoAttribute THEN Missing
    ELSE trim(el.label)

\* a || b on strings: undefined and the empty string are falsy.
Or(a, b) == IF a = Missing \/ a = <<>> THEN b ELSE a

\* Line 270: reviewText.
\* (reviewTextCollapsedFirst: the fault of preferring the collapsed text.)
reviewTextCollapsedFirst(expanded, collapsed) ==
    Or(Or(textOf(collapsed), textOf(expanded)), NoReviewText)
reviewTextOf(expanded, collapsed) ==
    Or(Or(textOf(expanded), textOf(collapsed)), NoReviewText)

\* A review item: the elements extractReviews looks up in it.
NoReviewItem == [name |-> NoElement, stars |-> NoStars,
                 expanded |-> NoElement, collapsed |-> NoElement]
ReviewItems ==
    {[NoReviewItem EXCEPT !.name = n, !.stars = st] :
        n \in TextElements, st \in StarsElements}
    \cup
    {[NoReviewItem EXCEPT !.expanded = e, !.collapsed = c] :
        e \in TextElements, c \in TextElements}

\* Lines 265-276: the callback of map, one record for one review item.
NoRecord == [fullName |-> Missing, stars |-> Missing, reviewText |-> Missing]
recordOf(item) ==
    [fullName |-> Or(textOf(item.name), Anonymous),
     stars |-> Or(labelOf(item.stars), NoRating),
     reviewText |-> reviewTextOf(item.expanded, item.collapsed)]

(***************************************************************************)
(* Dashboard: what the user types, the suggestions autocomplete returns    *)
(* and the data of a search, which stands for the response of the search   *)
(* with that number.                                                       *)
(***************************************************************************)
Descriptions == {<<"a", "b", "c">>, <<"x", "y", "z">>}
Inputs == {<<>>, <<" ">>, <<"a">>} \cup Descriptions
NoData == 0

VARIABLES
    now,          \* Date.now(), ms
    cache,        \* cache: cacheKey -> [data, timestamp]
    pc,           \* the await each request is suspended at
    searchTerm,   \* GET: searchTerm
    skipCache,    \* GET: skipCache
    attempt,      \* withRetry: attempt
    lastError,    \* withRetry: lastError
    delay,        \* withRetry: the delay being waited, 0 when none
    browser,      \* scrapeMapReviews: browser ("none", "open", "closed")
    businessInfo, \* scrapeMapReviews: businessInfo
    outcome,      \* scrapeMapReviews: the value the try block completed with
    response,     \* the NextResponse returned by GET
    calls,        \* history: invocations of fn by withRetry
    launches,     \* history: puppeteer.launch calls
    opened,       \* history: sessions opened
    closes,       \* history: browser.close calls
    thrown,       \* history: the error withRetry threw
    served,       \* history: where a 200 body came from
    prevDelay,    \* history: the delay withRetry waited before this one
    scrapedAt,    \* history: Date.now() when a scrape returned its result
    issuedAt,     \* history: Date.now() when the request arrived
    prior,        \* history: requests already answered from a scrape inside
                  \* the TTL window when this one arrived
    feed,         \* the page: the review feed the attempt is looking at
    reviews,      \* scrapeReviewsWithScrolling: reviews
    newReviews,   \* scrapeReviewsWithScrolling: newReviews of the last iteration
    previousLength, \* scrapeReviewsWithScrolling: previousLength
    scrollAttempts, \* scrapeReviewsWithScrolling: scrollAttempts
    loopExit,     \* history: how the scroll loop was left
    summary,      \* history: businessInfo when the scroll engine was called
    label,        \* the page: the element under SELECTORS.TOTAL_REVIEWS
    totalReviews, \* extractBusinessInfo: totalReviews
    requestId,    \* GET: requestId, 0 before crypto.randomUUID() was called
    passedId,     \* history: the requestId arguments scrapeMapReviews was given
    hasConsent,   \* handleConsentIfNeeded: what became of the consent lookup
    infoThrew,    \* history: extractBusinessInfo caught a throw in its last call
    query,        \* a searchTerm whose cache key is computed
    cacheKey,     \* GET: the cacheKey computed for it
    reviewItem,   \* extractReviews: the review item the callback of map is given
    record,       \* extractReviews: the record the callback returned for it
    nodeCount,    \* extractReviews: reviewElements.length
    visited,      \* history: review items the callback was called on
    produced,     \* history: records in the array map builds
    input,        \* Dashboard: input
    loading,      \* Dashboard: loading
    selected,     \* Dashboard: selected
    searchResults, \* Dashboard: searchResults, as the search whose data it is
    predictions,  \* Dashboard: whether predictions is non-empty
    fetching,     \* Dashboard: calls of autocomplete that have not returned
    issued,       \* history: calls of handleSearch
    inFlight      \* the calls of handleSearch that have not finished

vars == <<now, cache, pc, searchTerm, skipCache, attempt, lastError, delay,
          browser, businessInfo, outcome, response, calls, launches, opened,
          closes, thrown, served, prevDelay, scrapedAt, issuedAt, prior,
          feed, reviews, newReviews, previousLength, scrollAttempts, loopExit,
          summary, label, totalReviews, requestId, passedId, hasConsent,
          infoThrew,
          query, cacheKey, reviewItem, record, nodeCount, visited, produced,
          input, loading, selected, searchResults, predictions, fetching,
          issued, inFlight>>

\* What the scroll engine and extractBusinessInfo work on.
scrollVars == <<feed, reviews, newReviews, previousLength, scrollAttempts,
                loopExit, summary>>
infoVars == <<label, totalReviews>>
keyVars == <<query, cacheKey>>
itemVars == <<reviewItem, record, nodeCount, visited, produced>>
dashVars == <<input, loading, selected, searchResults, predictions,
              fetching, issued, inFlight>>
pageVars == <<scrollVars, infoVars, keyVars, itemVars, dashVars>>
idVars == <<requestId, passedId>>

(***************************************************************************)
(* withRetry: the backoff band of attempt a, and the draws of randomDelay. *)
(***************************************************************************)
\* (RetryMinFlat: the fault of a lower bound that does not grow.)
RetryMinFlat(a) == RetryBaseMin
RetryMin(a) == RetryBaseMin * Pow2(a)
RetryMax(a) == RetryBaseMax * Pow2(a)

\* Math.floor(Math.random() * (max - min + 1)) + min ranges over min..max;
\* the model draws the two ends and the middle of the band.
DelayDraws(min, max) == {min, (min + max) \div 2, max}

\* Date.now() - timestamp < CONFIG.CACHE_TTL * 1000
\* (FreshInclusive: the fault of comparing with <=.)
FreshInclusive(t, timestamp) == (t - timestamp) <= CACHE_TTL * 1000
Fresh(t, timestamp) == (t - timestamp) < CACHE_TTL * 1000

\* for (...; attempt < maxRetries; ...)
\* (LoopContinuesInclusive: the fault of looping once more.)
LoopContinuesInclusive(a, maxRetries) == a <= maxRetries
LoopContinues(a, maxRetries) == a < maxRetries

\* if (attempt < maxRetries - 1)
\* (ShouldDelayAlways: the fault of also waiting after the last attempt.)
ShouldDelayAlways(a, maxRetries) == a < maxRetries
ShouldDelay(a, maxRetries) == a < maxRetries - 1

\* while (scrollAttempts < CONFIG.MAX_SCROLL_ATTEMPTS)
\* (ScrollLoopContinuesInclusive: the fault of looping once more.)
ScrollLoopContinuesInclusive(a) == a <= MAX_SCROLL_ATTEMPTS
ScrollLoopContinues(a) == a < MAX_SCROLL_ATTEMPTS

\* newReviews.length === previousLength || newReviews.length >= MAX_REVIEWS
\* (ShouldBreakAtCapOnly: the fault of not testing for stagnation.)
ShouldBreakAtCapOnly(n, prev) == n >= MAX_REVIEWS
\* (ShouldBreakOnShrink: the fault of also stopping when the count falls.)
ShouldBreakOnShrink(n, prev) == n <= prev \/ n >= MAX_REVIEWS
ShouldBreak(n, prev) == n = prev \/ n >= MAX_REVIEWS

\* scrollAttempts++
\* (ScrollAttemptsKept: the fault of not counting the iteration.)
ScrollAttemptsKept(a) == a
NextScrollAttempts(a) == a + 1

\* The requests whose scrape returned a result less than a TTL before t.
Scraped(t) ==
    {q \in Reqs : served[q] = "scrape" /\ (t - scrapedAt[q]) < CACHE_TTL * 1000}

\* GET, line 117: the cache lookup.
\* (CacheHitIgnoringSkip: the fault of not testing skipCache.)
CacheHitIgnoringSkip(skip, key, t) ==
    /\ key \in DOMAIN cache
    /\ Fresh(t, cache[key].timestamp)
CacheHit(skip, key, t) ==
    /\ ~skip
    /\ key \in DOMAIN cache
    /\ Fresh(t, cache[key].timestamp)

(***************************************************************************)
(* Init: the module has just been loaded, the cache is {}.                 *)
(***************************************************************************)
InitRequests(clients) ==
    /\ pc = [r \in Reqs |-> IF r \in clients THEN "idle" ELSE "off"]
    /\ searchTerm = [r \in Reqs |-> Null]
    /\ skipCache = [r \in Reqs |-> FALSE]
    /\ attempt = [r \in Reqs |-> 0]
    /\ lastError = [r \in Reqs |-> NoErr]
    /\ delay = [r \in Reqs |-> 0]
    /\ browser = [r \in Reqs |-> "none"]
    /\ businessInfo = [r \in Reqs |-> NoInfo]
    /\ outcome = [r \in Reqs |-> NoResult]
    /\ response = [r \in Reqs |-> NoResponse]
    /\ calls = [r \in Reqs |-> 0]
    /\ launches = [r \in Reqs |-> 0]
    /\ opened = [r \in Reqs |-> 0]
    /\ closes = [r \in Reqs |-> 0]
    /\ thrown = [r \in Reqs |-> NoErr]
    /\ served = [r \in Reqs |-> "none"]
    /\ prevDelay = [r \in Reqs |-> 0]
    /\ scrapedAt = [r \in Reqs |-> 0]
    /\ issuedAt = [r \in Reqs |-> 0]
    /\ prior = [r \in Reqs |-> {}]
    /\ feed = [r \in Reqs |-> NoFeed]
    /\ reviews = [r \in Reqs |-> <<>>]
    /\ newReviews = [r \in Reqs |-> <<>>]
    /\ previousLength = [r \in Reqs |-> 0]
    /\ scrollAttempts = [r \in Reqs |-> 0]
    /\ loopExit = [r \in Reqs |-> "none"]
    /\ summary = [r \in Reqs |-> NoInfo]
    /\ requestId = [r \in Reqs |-> 0]
    /\ passedId = [r \in Reqs |-> {}]
    /\ hasConsent = [r \in Reqs |-> "none"]
    /\ infoThrew = [r \in Reqs |-> FALSE]

\* The locals of scrapeReviewsWithScrolling and the page they were read
\* from are gone once the attempt has thrown.
DiscardPage(r) ==
    /\ feed' = [feed EXCEPT ![r] = NoFeed]
    /\ reviews' = [reviews EXCEPT ![r] = <<>>]
    /\ newReviews' = [newReviews EXCEPT ![r] = <<>>]
    /\ previousLength' = [previousLength EXCEPT ![r] = 0]
    /\ scrollAttempts' = [scrollAttempts EXCEPT ![r] = 0]
    /\ loopExit' = [loopExit EXCEPT ![r] = "none"]
    /\ summary' = [summary EXCEPT ![r] = NoInfo]

\* No document has been given to extractReviews.
ItemIdle ==
    /\ reviewItem = NoReviewItem
    /\ record = NoRecord
    /\ nodeCount = 0
    /\ visited = 0
    /\ produced = 0

\* Dashboard, lines 11-17: the initial state of the component.
DashIdle ==
    /\ input = <<>>
    /\ loading = FALSE
    /\ selected = FALSE
    /\ searchResults = NoData
    /\ predictions = FALSE
    /\ fetching = 0
    /\ issued = 0
    /\ inFlight = {}

\* No page has been read for its total-reviews label.
InfoIdle ==
    /\ label = NoElement
    /\ totalReviews = NotRead
    /\ query = <<>>
    /\ cacheKey = NoKey
    /\ ItemIdle
    /\ DashIdle

\* One request arrives at the freshly loaded module.
Init ==
    /\ now = 0
    /\ cache = <<>>
    /\ InitRequests({1})
    /\ InfoIdle

(***************************************************************************)
(* withRetry calls fn: scrapeMapReviews runs up to await puppeteer.launch. *)
(***************************************************************************)
\* (InvokeFnOwnId: the fault of making up an identifier for every attempt.)
InvokeFnOwnId(r) ==
    /\ calls' = [calls EXCEPT ![r] = @ + 1]
    /\ launches' = [launches EXCEPT ![r] = @ + 1]
    /\ passedId' = [passedId EXCEPT ![r] = @ \cup {requestId'[r] + calls[r] + 1}]
    /\ pc' = [pc EXCEPT ![r] = "launching"]

\* (InvokeFnLaunchingTwice: the fault of launching a second browser.)
InvokeFnLaunchingTwice(r) ==
    /\ calls' = [calls EXCEPT ![r] = @ + 1]
    /\ launches' = [launches EXCEPT ![r] = @ + 2]
    /\ passedId' = [passedId EXCEPT ![r] = @ \cup {requestId'[r]}]
    /\ pc' = [pc EXCEPT ![r] = "launching"]

InvokeFn(r) ==
    /\ calls' = [calls EXCEPT ![r] = @ + 1]
    /\ launches' = [launches EXCEPT ![r] = @ + 1]
    /\ passedId' = [passedId EXCEPT ![r] = @ \cup {requestId'[r]}]
    /\ pc' = [pc EXCEPT ![r] = "launching"]

\* withRetry, lines 147-155, when fn threw e; on exhaustion the error
\* reaches the catch of GET, lines 133-138.
Fail(r, e) ==
    /\ lastError' = [lastError EXCEPT ![r] = e]
    /\ IF ShouldDelay(attempt[r], RETRY_ATTEMPTS)
       THEN /\ \E d \in DelayDraws(RetryMin(attempt[r]), RetryMax(attempt[r])) :
                  delay' = [delay EXCEPT ![r] = d]
            /\ pc' = [pc EXCEPT ![r] = "backoff"]
            /\ UNCHANGED <<attempt, calls, launches, thrown, response, passedId>>
       ELSE IF LoopContinues(attempt[r] + 1, RETRY_ATTEMPTS)
       THEN /\ attempt' = [attempt EXCEPT ![r] = @ + 1]
            /\ InvokeFn(r)
            /\ UNCHANGED <<delay, thrown, response>>
       ELSE /\ attempt' = [attempt EXCEPT ![r] = @ + 1]
            /\ thrown' = [thrown EXCEPT ![r] = lastError'[r]]
            /\ response' = [response EXCEPT ![r] =
                  [status |-> 500, body |-> NoResult,
                   error |-> GenericFailure, requestId |-> r]]
            /\ pc' = [pc EXCEPT ![r] = "done"]
            /\ UNCHANGED <<delay, calls, launches, passedId>>
    /\ UNCHANGED <<prevDelay, served, scrapedAt>>

\* (SettleRetryingErrors: the fault of treating an error result as a throw.)
SettleRetryingErrors(r, result) ==
    IF HasError(result) /\ ShouldDelay(attempt[r], RETRY_ATTEMPTS)
    THEN Fail(r, Err("Outcome", attempt[r]))
    ELSE /\ response' = [response EXCEPT ![r] =
               IF HasError(result)
               THEN [status |-> 404, body |-> NoResult, error |-> result.error,
                     requestId |-> r]
               ELSE [status |-> 200, body |-> result, error |-> NoError,
                     requestId |-> 0]]
         /\ served' = [served EXCEPT ![r] = IF HasError(result) THEN @ ELSE "scrape"]
         /\ scrapedAt' = [scrapedAt EXCEPT ![r] = IF HasError(result) THEN @ ELSE now]
         /\ pc' = [pc EXCEPT ![r] = "done"]
         /\ UNCHANGED <<attempt, lastError, delay, calls, launches, thrown,
                        prevDelay, passedId>>

\* (SettleErrorsAs500: the fault of answering an error result like a throw.)
SettleErrorsAs500(r, result) ==
    /\ response' = [response EXCEPT ![r] =
          IF HasError(result)
          THEN [status |-> 500, body |-> NoResult, error |-> result.error,
                requestId |-> r]
          ELSE [status |-> 200, body |-> result, error |-> NoError,
                requestId |-> 0]]
    /\ served' = [served EXCEPT ![r] = IF HasError(result) THEN @ ELSE "scrape"]
    /\ scrapedAt' = [scrapedAt EXCEPT ![r] = IF HasError(result) THEN @ ELSE now]
    /\ pc' = [pc EXCEPT ![r] = "done"]
    /\ UNCHANGED <<attempt, lastError, delay, calls, launches, thrown, prevDelay,
                   passedId>>

\* withRetry, line 146: fn returned `result`, withRetry returns it; GET,
\* lines 128-132, answers 404 for an error result and 200 otherwise.
Settle(r, result) ==
    /\ response' = [response EXCEPT ![r] =
          IF HasError(result)
          THEN [status |-> 404, body |-> NoResult, error |-> result.error,
                requestId |-> r]
          ELSE [status |-> 200, body |-> result, error |-> NoError,
                requestId |-> 0]]
    /\ served' = [served EXCEPT ![r] = IF HasError(result) THEN @ ELSE "scrape"]
    /\ scrapedAt' = [scrapedAt EXCEPT ![r] = IF HasError(result) THEN @ ELSE now]
    /\ pc' = [pc EXCEPT ![r] = "done"]
    /\ UNCHANGED <<attempt, lastError, delay, calls, launches, thrown, prevDelay,
                   passedId>>

\* (ExitAttemptNoFinally: the fault of closing at the end of the try block
\* instead of in a finally clause, so that the catch of line 205 skips it.)
ExitAttemptNoFinally(r, value) ==
    /\ outcome' = [outcome EXCEPT ![r] = value]
    /\ businessInfo' = [businessInfo EXCEPT ![r] = NoInfo]
    /\ closes' = [closes EXCEPT ![r] =
          IF value.error = TechnicalIssue THEN @ ELSE @ + 1]
    /\ pc' = [pc EXCEPT ![r] = "closing"]

\* (ExitAttemptSkippingClose: the fault of an attempt that returns without
\* calling browser.close().)
ExitAttemptSkippingClose(r, value) ==
    /\ outcome' = [outcome EXCEPT ![r] = value]
    /\ businessInfo' = [businessInfo EXCEPT ![r] = NoInfo]
    /\ closes' = closes
    /\ pc' = [pc EXCEPT ![r] = "closing"]
\* scrapeMapReviews leaves its try block with `value`: the finally clause,
\* lines 207-209, calls browser.close() and awaits it.
ExitAttempt(r, value) ==
    /\ outcome' = [outcome EXCEPT ![r] = value]
    /\ businessInfo' = [businessInfo EXCEPT ![r] = NoInfo]
    /\ closes' = [closes EXCEPT ![r] = @ + 1]
    /\ pc' = [pc EXCEPT ![r] = "closing"]

(***************************************************************************)
(* GET, lines 104-126: up to the first await.                              *)
(***************************************************************************)
Receive(r) ==
    /\ pc[r] = "idle"
    /\ requestId' = [requestId EXCEPT ![r] = r]
    /\ UNCHANGED <<hasConsent, infoThrew>>
    /\ \E term \in SearchTerms, skip \in BOOLEAN :
        /\ searchTerm' = [searchTerm EXCEPT ![r] = term]
        /\ skipCache' = [skipCache EXCEPT ![r] = skip]
        /\ IF InvalidQuery(term)
           THEN /\ response' = [response EXCEPT ![r] =
                      [status |-> 400, body |-> NoResult,
                       error |-> "searchTerm is required", requestId |-> r]]
                /\ pc' = [pc EXCEPT ![r] = "done"]
                /\ UNCHANGED <<calls, launches, served, passedId>>
           ELSE IF CacheHit(skip, CacheKey(term), now)
           THEN /\ response' = [response EXCEPT ![r] =
                      [status |-> 200, body |-> cache[CacheKey(term)].data,
                       error |-> NoError, requestId |-> 0]]
                /\ served' = [served EXCEPT ![r] = "cache"]
                /\ pc' = [pc EXCEPT ![r] = "done"]
                /\ UNCHANGED <<calls, launches, passedId>>
           ELSE /\ InvokeFn(r)
                /\ UNCHANGED <<response, served>>
    /\ issuedAt' = [issuedAt EXCEPT ![r] = now]
    /\ prior' = [prior EXCEPT ![r] = Scraped(now)]
    /\ UNCHANGED <<now, cache, attempt, lastError, delay, browser, businessInfo,
                   outcome, opened, closes, thrown, prevDelay, scrapedAt>>
    /\ UNCHANGED pageVars

\* scrapeMapReviews, lines 162-167: await puppeteer.launch.
\* (LaunchDoneClosingOnFailure: the fault of calling close on a browser
\* that was never launched.)
LaunchDoneClosingOnFailure(r) ==
    /\ pc[r] = "launching"
    /\ UNCHANGED <<requestId, hasConsent, infoThrew>>
    /\ \/ /\ browser' = [browser EXCEPT ![r] = "open"]
          /\ opened' = [opened EXCEPT ![r] = @ + 1]
          /\ pc' = [pc EXCEPT ![r] = "navigate"]
          /\ UNCHANGED <<attempt, lastError, delay, response, calls, launches,
                         thrown, prevDelay, served, scrapedAt, passedId, closes>>
       \/ /\ Fail(r, Err("LaunchFailure", attempt[r]))
          /\ closes' = [closes EXCEPT ![r] = @ + 1]
          /\ UNCHANGED <<browser, opened>>
    /\ UNCHANGED <<now, cache, searchTerm, skipCache, businessInfo, outcome,
                   issuedAt, prior>>
    /\ UNCHANGED pageVars

\* (LaunchDoneSharedBrowser: the fault of keeping the browser in a module
\* variable that every request reads and assigns.)
LaunchDoneSharedBrowser(r) ==
    /\ pc[r] = "launching"
    /\ UNCHANGED <<requestId, hasConsent, infoThrew>>
    /\ \/ /\ browser' = [q \in Reqs |-> "open"]
          /\ opened' = [opened EXCEPT ![r] = @ + 1]
          /\ pc' = [pc EXCEPT ![r] = "navigate"]
          /\ UNCHANGED <<attempt, lastError, delay, response, calls, launches,
                         thrown, prevDelay, served, scrapedAt, passedId>>
       \/ /\ Fail(r, Err("LaunchFailure", attempt[r]))
          /\ UNCHANGED <<browser, opened>>
    /\ UNCHANGED <<now, cache, searchTerm, skipCache, businessInfo, outcome,
                   closes, issuedAt, prior>>
    /\ UNCHANGED pageVars
LaunchDone(r) ==
    /\ pc[r] = "launching"
    /\ UNCHANGED <<requestId, hasConsent, infoThrew>>
    /\ \/ /\ browser' = [browser EXCEPT ![r] = "open"]
          /\ opened' = [opened EXCEPT ![r] = @ + 1]
          /\ pc' = [pc EXCEPT ![r] = "navigate"]
          /\ UNCHANGED <<attempt, lastError, delay, response, calls, launches,
                         thrown, prevDelay, served, scrapedAt, passedId>>
       \/ /\ Fail(r, Err("LaunchFailure", attempt[r]))
          /\ UNCHANGED <<browser, opened>>
    /\ UNCHANGED <<now, cache, searchTerm, skipCache, businessInfo, outcome,
                   closes, issuedAt, prior>>
    /\ UNCHANGED pageVars

\* scrapeMapReviews, lines 170-180: newPage, setUserAgent, setViewport, goto
\* and the loading delay; a throw is caught at line 205.
Navigate(r) ==
    /\ pc[r] = "navigate"
    /\ UNCHANGED <<idVars, hasConsent, infoThrew>>
    /\ \/ /\ pc' = [pc EXCEPT ![r] = "consent"]
          /\ UNCHANGED <<outcome, businessInfo, closes>>
       \/ ExitAttempt(r, ErrorResult(TechnicalIssue))
    /\ UNCHANGED <<now, cache, searchTerm, skipCache, attempt, lastError, delay,
                   browser, response, calls, launches, opened, thrown, served,
                   prevDelay, scrapedAt, issuedAt, prior>>
    /\ UNCHANGED pageVars

\* handleConsentIfNeeded, lines 212-222: nothing it does or fails to do
\* leaves the function; hasConsent is gone when it has returned.
\* The consent button is absent (line 214 finds nothing), is found and
\* clicked, is found but has no box to click (humanClick, lines 74-77), or
\* the lookup or the click throws (line 219).
ConsentOutcomes == {"absent", "clicked", "unclickable", "threw"}

\* (ConsentFatal: the fault of letting a throw of the consent handling
\* reach the catch of line 205.)
ConsentFatal(r) ==
    /\ pc[r] = "consent"
    /\ \E c \in ConsentOutcomes :
          /\ hasConsent' = [hasConsent EXCEPT ![r] = c]
          /\ IF c = "threw"
             THEN ExitAttempt(r, ErrorResult(TechnicalIssue))
             ELSE /\ pc' = [pc EXCEPT ![r] = "business"]
                  /\ UNCHANGED <<outcome, businessInfo, closes>>
    /\ UNCHANGED <<idVars, infoThrew>>
    /\ UNCHANGED <<now, cache, searchTerm, skipCache, attempt, lastError, delay,
                   browser, response, calls, launches, opened, thrown, served,
                   prevDelay, scrapedAt, issuedAt, prior>>
    /\ UNCHANGED pageVars

Consent(r) ==
    /\ pc[r] = "consent"
    /\ \E c \in ConsentOutcomes :
          /\ hasConsent' = [hasConsent EXCEPT ![r] = c]
          /\ pc' = [pc EXCEPT ![r] = "business"]
    /\ UNCHANGED <<idVars, infoThrew>>
    /\ UNCHANGED <<now, cache, searchTerm, skipCache, attempt, lastError, delay,
                   browser, businessInfo, outcome, response, calls, launches,
                   opened, closes, thrown, served, prevDelay, scrapedAt,
                   issuedAt, prior>>
    /\ UNCHANGED pageVars

\* extractBusinessInfo, lines 224-243: what the page shows, or {} on a throw.
\* (ExtractBusinessFatal: the fault of a missing try/catch in
\* extractBusinessInfo, so that its throw is caught at line 205.)
ExtractBusinessFatal(r) ==
    /\ pc[r] = "business"
    /\ hasConsent' = [hasConsent EXCEPT ![r] = "none"]
    /\ UNCHANGED idVars
    /\ \/ /\ \E info \in BusinessInfos :
                businessInfo' = [businessInfo EXCEPT ![r] = info]
          /\ infoThrew' = [infoThrew EXCEPT ![r] = FALSE]
          /\ pc' = [pc EXCEPT ![r] = "feedEntry"]
          /\ UNCHANGED <<outcome, closes>>
       \/ /\ ExitAttempt(r, ErrorResult(TechnicalIssue))
          /\ infoThrew' = [infoThrew EXCEPT ![r] = TRUE]
    /\ UNCHANGED <<now, cache, searchTerm, skipCache, attempt, lastError, delay,
                   browser, response, calls, launches, opened,
                   thrown, served, prevDelay, scrapedAt, issuedAt, prior>>
    /\ UNCHANGED pageVars

ExtractBusiness(r) ==
    /\ pc[r] = "business"
    /\ hasConsent' = [hasConsent EXCEPT ![r] = "none"]
    /\ UNCHANGED idVars
    /\ \/ /\ \E info \in BusinessInfos :
                businessInfo' = [businessInfo EXCEPT ![r] = info]
          /\ infoThrew' = [infoThrew EXCEPT ![r] = FALSE]
       \/ /\ businessInfo' = [businessInfo EXCEPT ![r] = NoInfo]
          /\ infoThrew' = [infoThrew EXCEPT ![r] = TRUE]
    /\ pc' = [pc EXCEPT ![r] = "feedEntry"]
    /\ UNCHANGED <<now, cache, searchTerm, skipCache, attempt, lastError, delay,
                   browser, outcome, response, calls, launches, opened, closes,
                   thrown, served, prevDelay, scrapedAt, issuedAt, prior>>
    /\ UNCHANGED pageVars

\* scrapeMapReviews, lines 185-191: wait for the reviews button and click it.
\* (FeedEntryUnchecked: the fault of going on to the scroll engine when the
\* reviews button did not appear.)
FeedEntryUnchecked(r) ==
    /\ pc[r] = "feedEntry"
    /\ UNCHANGED <<idVars, hasConsent, infoThrew>>
    /\ \/ pc' = [pc EXCEPT ![r] = "container"]
       \/ pc' = [pc EXCEPT ![r] = "scroll"]
    /\ UNCHANGED <<outcome, businessInfo, closes>>
    /\ UNCHANGED <<now, cache, searchTerm, skipCache, attempt, lastError, delay,
                   browser, response, calls, launches, opened, thrown, served,
                   prevDelay, scrapedAt, issuedAt, prior>>
    /\ UNCHANGED pageVars

FeedEntry(r) ==
    /\ pc[r] = "feedEntry"
    /\ UNCHANGED <<idVars, hasConsent, infoThrew>>
    /\ \/ /\ pc' = [pc EXCEPT ![r] = "container"]
          /\ UNCHANGED <<outcome, businessInfo, closes>>
       \/ ExitAttempt(r, ErrorResult(NoFeedFound))
    /\ UNCHANGED <<now, cache, searchTerm, skipCache, attempt, lastError, delay,
                   browser, response, calls, launches, opened, thrown, served,
                   prevDelay, scrapedAt, issuedAt, prior>>
    /\ UNCHANGED pageVars

\* scrapeMapReviews, lines 193-197: wait for the reviews container.
Container(r) ==
    /\ pc[r] = "container"
    /\ UNCHANGED <<idVars, hasConsent, infoThrew>>
    /\ \/ /\ pc' = [pc EXCEPT ![r] = "scroll"]
          /\ UNCHANGED <<outcome, businessInfo, closes>>
       \/ ExitAttempt(r, ErrorResult(FeedContainerMissing))
    /\ UNCHANGED <<now, cache, searchTerm, skipCache, attempt, lastError, delay,
                   browser, response, calls, launches, opened, thrown, served,
                   prevDelay, scrapedAt, issuedAt, prior>>
    /\ UNCHANGED pageVars

\* scrapeMapReviews, lines 199-204: scrapeReviewsWithScrolling returns the
\* reviews or throws (caught at line 205).
Scroll(r) ==
    /\ pc[r] = "scroll"
    /\ UNCHANGED <<idVars, hasConsent, infoThrew>>
    /\ \/ \E revs \in FeedResults :
              ExitAttempt(r, ScrapeResult(businessInfo[r], revs))
       \/ ExitAttempt(r, ErrorResult(TechnicalIssue))
    /\ UNCHANGED <<now, cache, searchTerm, skipCache, attempt, lastError, delay,
                   browser, response, calls, launches, opened, thrown, served,
                   prevDelay, scrapedAt, issuedAt, prior>>
    /\ UNCHANGED pageVars

\* scrapeMapReviews, line 208: await browser.close() settles; the attempt
\* returns its value, or close threw and the attempt throws.
\* (CloseDoneKeepingOutcome: the fault of catching the throw of close and
\* returning the attempt's outcome all the same.)
CloseDoneKeepingOutcome(r) ==
    /\ pc[r] = "closing"
    /\ UNCHANGED <<requestId, hasConsent, infoThrew>>
    /\ browser' = [browser EXCEPT ![r] = "closed"]
    /\ outcome' = [outcome EXCEPT ![r] = NoResult]
    /\ \/ Settle(r, outcome[r])
       \/ /\ lastError' = [lastError EXCEPT ![r] = Err("CloseFailure", attempt[r])]
          /\ response' = [response EXCEPT ![r] =
                IF HasError(outcome[r])
                THEN [status |-> 404, body |-> NoResult,
                      error |-> outcome[r].error, requestId |-> r]
                ELSE [status |-> 200, body |-> outcome[r], error |-> NoError,
                      requestId |-> 0]]
          /\ served' = [served EXCEPT ![r] =
                IF HasError(outcome[r]) THEN @ ELSE "scrape"]
          /\ scrapedAt' = [scrapedAt EXCEPT ![r] =
                IF HasError(outcome[r]) THEN @ ELSE now]
          /\ pc' = [pc EXCEPT ![r] = "done"]
          /\ UNCHANGED <<attempt, delay, calls, launches, thrown, prevDelay,
                         passedId>>
    /\ UNCHANGED scrollVars
    /\ UNCHANGED <<now, cache, searchTerm, skipCache, businessInfo, opened,
                   closes, issuedAt, prior>>
    /\ UNCHANGED <<infoVars, keyVars, itemVars, dashVars>>

\* (CloseDoneCachingErrors: the fault of storing under the request's key
\* whatever the attempt returned, error objects included.)
CloseDoneCachingErrors(r) ==
    /\ pc[r] = "closing"
    /\ UNCHANGED <<requestId, hasConsent, infoThrew>>
    /\ browser' = [browser EXCEPT ![r] = "closed"]
    /\ outcome' = [outcome EXCEPT ![r] = NoResult]
    /\ \/ /\ Settle(r, outcome[r])
          /\ cache' = [k \in DOMAIN cache \cup {CacheKey(searchTerm[r])} |->
                IF k = CacheKey(searchTerm[r])
                THEN [data |-> outcome[r], timestamp |-> now]
                ELSE cache[k]]
          /\ UNCHANGED scrollVars
       \/ Fail(r, Err("CloseFailure", attempt[r])) /\ DiscardPage(r) /\ UNCHANGED cache
    /\ UNCHANGED <<now, searchTerm, skipCache, businessInfo, opened,
                   closes, issuedAt, prior>>
    /\ UNCHANGED <<infoVars, keyVars, itemVars, dashVars>>
CloseDone(r) ==
    /\ pc[r] = "closing"
    /\ UNCHANGED <<requestId, hasConsent, infoThrew>>
    /\ browser' = [browser EXCEPT ![r] = "closed"]
    /\ outcome' = [outcome EXCEPT ![r] = NoResult]
    /\ \/ Settle(r, outcome[r]) /\ UNCHANGED scrollVars
       \/ Fail(r, Err("CloseFailure", attempt[r])) /\ DiscardPage(r)
    /\ UNCHANGED <<now, cache, searchTerm, skipCache, businessInfo, opened,
                   closes, issuedAt, prior>>
    /\ UNCHANGED <<infoVars, keyVars, itemVars, dashVars>>

\* withRetry, line 150: the backoff delay elapses; the loop calls fn again.
DelayElapsed(r) ==
    /\ pc[r] = "backoff"
    /\ UNCHANGED <<requestId, hasConsent, infoThrew>>
    /\ attempt' = [attempt EXCEPT ![r] = @ + 1]
    /\ delay' = [delay EXCEPT ![r] = 0]
    /\ prevDelay' = [prevDelay EXCEPT ![r] = delay[r]]
    /\ InvokeFn(r)
    /\ UNCHANGED <<now, cache, searchTerm, skipCache, lastError, browser,
                   businessInfo, outcome, response, opened, closes, thrown,
                   served, scrapedAt, issuedAt, prior>>
    /\ UNCHANGED pageVars

\* Time passes.
Tick ==
    /\ now < MaxTicks * TickMs
    /\ UNCHANGED <<idVars, hasConsent, infoThrew>>
    /\ now' = now + TickMs
    /\ UNCHANGED <<cache, pc, searchTerm, skipCache, attempt, lastError, delay,
                   browser, businessInfo, outcome, response, calls, launches,
                   opened, closes, thrown, served, prevDelay, scrapedAt,
                   issuedAt, prior>>
    /\ UNCHANGED pageVars

Step(r) ==
    \/ Receive(r)
    \/ LaunchDone(r)
    \/ Navigate(r)
    \/ Consent(r)
    \/ ExtractBusiness(r)
    \/ FeedEntry(r)
    \/ Container(r)
    \/ Scroll(r)
    \/ CloseDone(r)
    \/ DelayElapsed(r)

Next == Tick \/ \E r \in Reqs : Step(r)

Spec == Init /\ [][Next]_vars

(***************************************************************************)
(* Two overlapping requests.  The environment of SpecPair is narrowed to   *)
(* keep the product of the two requests small: both requests arrive and    *)
(* finish inside one clock tick, both queries normalise to the same cache  *)
(* key, every backoff timer is drawn at the bottom of its band and         *)
(* browser.close() does not throw.  Every behaviour of SpecPair is a       *)
(* behaviour of the server.                                                *)
(***************************************************************************)
PairTerms == {Null, <<"a">>, <<"A">>}

PairEnv ==
    \A r \in Reqs :
        /\ searchTerm'[r] \in PairTerms
        /\ delay'[r] \in {0} \cup {RetryMin(a) : a \in 0..RETRY_ATTEMPTS}
        /\ lastError'[r].kind # "CloseFailure"

InitPair ==
    /\ now = 0
    /\ cache = <<>>
    /\ InitRequests(Reqs)
    /\ InfoIdle

NextPair ==
    \E r \in Reqs :
        \/ Receive(r) /\ PairEnv
        \/ LaunchDone(r) /\ PairEnv
        \/ Navigate(r)
        \/ Consent(r)
        \/ ExtractBusiness(r)
        \/ FeedEntry(r)
        \/ Container(r)
        \/ Scroll(r)
        \/ CloseDone(r) /\ PairEnv
        \/ DelayElapsed(r)

SpecPair == InitPair /\ [][NextPair]_vars

(***************************************************************************)
(* The lookup of GET, line 117, over stored entries.  No statement of      *)
(* route.ts stores into `cache`, so under Spec the lookup only ever meets  *)
(* the empty object.  SpecWarm starts one request on every cache content   *)
(* over WarmKeys and WarmTimes, which is what the lookup reads.            *)
(***************************************************************************)
WarmKeys == {CacheKey(term) : term \in SearchTerms \ {Null, <<>>}}
WarmTimes == {k * TickMs : k \in 0..(TicksPerTTL + 1)}
CachedData == ScrapeResult("Cafe", <<>>)

InitWarm ==
    /\ now \in WarmTimes
    /\ \E keys \in SUBSET WarmKeys :
          cache \in [keys -> [data : {CachedData},
                              timestamp : {t \in WarmTimes : t <= now}]]
    /\ InitRequests({1})
    /\ InfoIdle

SpecWarm == InitWarm /\ [][Next]_vars

(***************************************************************************)
(* scrapeReviewsWithScrolling, lines 245-301, iteration by iteration.      *)
(* Scroll above takes the call as one step with any result; ScrollStart    *)
(* and ScrollIteration run its loop over a feed of the page.               *)
(***************************************************************************)
\* Lines 280-282: the first extraction and the loop variables.
ScrollStart(r) ==
    /\ pc[r] = "scroll"
    /\ UNCHANGED <<idVars, hasConsent, infoThrew>>
    /\ \/ \E f \in Feeds :
            /\ feed' = [feed EXCEPT ![r] = f]
            /\ reviews' = [reviews EXCEPT ![r] = extractReviews(f)]
            /\ newReviews' = [newReviews EXCEPT ![r] = <<>>]
            /\ previousLength' = [previousLength EXCEPT ![r] = 0]
            /\ scrollAttempts' = [scrollAttempts EXCEPT ![r] = 0]
            /\ summary' = [summary EXCEPT ![r] = businessInfo[r]]
            /\ IF ScrollLoopContinues(0)
               THEN /\ loopExit' = [loopExit EXCEPT ![r] = "none"]
                    /\ pc' = [pc EXCEPT ![r] = "scrolling"]
                    /\ UNCHANGED <<outcome, businessInfo, closes>>
               ELSE /\ loopExit' = [loopExit EXCEPT ![r] = "exhausted"]
                    /\ ExitAttempt(r, ScrapeResult(businessInfo[r], extractReviews(f)))
       \/ /\ ExitAttempt(r, ErrorResult(TechnicalIssue))
          /\ DiscardPage(r)
    /\ UNCHANGED <<now, cache, searchTerm, skipCache, attempt, lastError, delay,
                   browser, response, calls, launches, opened, thrown, served,
                   prevDelay, scrapedAt, issuedAt, prior>>
    /\ UNCHANGED <<infoVars, keyVars, itemVars, dashVars>>

\* Lines 284-300: one iteration of the loop, up to the next await of
\* smoothScroll or, when the loop is left, of browser.close().
ScrollIteration(r) ==
    /\ pc[r] = "scrolling"
    /\ UNCHANGED <<idVars, hasConsent, infoThrew>>
    /\ \/ LET f == Scrolled(feed[r])
              extracted == extractReviews(f)
          IN  /\ feed' = [feed EXCEPT ![r] = f]
              /\ newReviews' = [newReviews EXCEPT ![r] = extracted]
              /\ IF ShouldBreak(Len(extracted), previousLength[r])
                 THEN /\ reviews' = [reviews EXCEPT ![r] = extracted]
                      /\ loopExit' = [loopExit EXCEPT ![r] = "break"]
                      /\ ExitAttempt(r, ScrapeResult(businessInfo[r], extracted))
                      /\ UNCHANGED <<previousLength, scrollAttempts>>
                 ELSE /\ previousLength' = [previousLength EXCEPT ![r] = Len(extracted)]
                      /\ scrollAttempts' = [scrollAttempts EXCEPT ![r] =
                            NextScrollAttempts(@)]
                      /\ UNCHANGED reviews
                      /\ IF ScrollLoopContinues(scrollAttempts'[r])
                         THEN UNCHANGED <<loopExit, pc, outcome, businessInfo, closes>>
                         ELSE /\ loopExit' = [loopExit EXCEPT ![r] = "exhausted"]
                              /\ ExitAttempt(r, ScrapeResult(businessInfo[r], reviews[r]))
              /\ UNCHANGED summary
       \/ /\ ExitAttempt(r, ErrorResult(TechnicalIssue))
          /\ DiscardPage(r)
    /\ UNCHANGED <<now, cache, searchTerm, skipCache, attempt, lastError, delay,
                   browser, response, calls, launches, opened, thrown, served,
                   prevDelay, scrapedAt, issuedAt, prior>>
    /\ UNCHANGED <<infoVars, keyVars, itemVars, dashVars>>

(***************************************************************************)
(* One request whose attempts run the scroll loop.  The environment of     *)
(* SpecScroll is narrowed to keep the product with the feeds small: the    *)
(* clock stands still, the query is "a" or missing, skipCache is absent    *)
(* and every backoff timer is drawn at the bottom of its band.             *)
(***************************************************************************)
ScrollTerms == {Null, <<"a">>}

ScrollEnv ==
    \A r \in Reqs :
        /\ searchTerm'[r] \in ScrollTerms
        /\ ~skipCache'[r]
        /\ delay'[r] \in {0} \cup {RetryMin(a) : a \in 0..RETRY_ATTEMPTS}

ScrollStep(r) ==
    \/ Receive(r) /\ ScrollEnv
    \/ LaunchDone(r) /\ ScrollEnv
    \/ Navigate(r)
    \/ Consent(r)
    \/ ExtractBusiness(r)
    \/ FeedEntry(r)
    \/ Container(r)
    \/ ScrollStart(r)
    \/ ScrollIteration(r)
    \/ CloseDone(r) /\ ScrollEnv
    \/ DelayElapsed(r)

NextScroll == \E r \in Reqs : ScrollStep(r)

SpecScroll == Init /\ [][NextScroll]_vars

\* Every browser operation and every delay a request awaits settles: the
\* step that follows an await is taken.
Fairness == \A r \in Reqs : WF_vars(ScrollStep(r))

SpecLive == Init /\ [][NextScroll]_vars /\ Fairness

(***************************************************************************)
(* extractBusinessInfo over the labels a page may show.                    *)
(***************************************************************************)
InitInfo ==
    /\ now = 0
    /\ cache = <<>>
    /\ InitRequests({})
    /\ label \in Labels
    /\ totalReviews = NotRead
    /\ query = <<>>
    /\ cacheKey = NoKey
    /\ ItemIdle
    /\ DashIdle

ReadTotalReviews ==
    /\ totalReviews = NotRead
    /\ UNCHANGED <<idVars, hasConsent, infoThrew, keyVars, itemVars, dashVars>>
    /\ totalReviews' = totalReviewsOf(label)
    /\ UNCHANGED <<now, cache, pc, searchTerm, skipCache, attempt, lastError,
                   delay, browser, businessInfo, outcome, response, calls,
                   launches, opened, closes, thrown, served, prevDelay,
                   scrapedAt, issuedAt, prior, label>>
    /\ UNCHANGED scrollVars

NextInfo == ReadTotalReviews

SpecInfo == InitInfo /\ [][NextInfo]_vars

(***************************************************************************)
(* The cache key of GET, line 116, over the queries a client may send.     *)
(***************************************************************************)
InitKey ==
    /\ now = 0
    /\ cache = <<>>
    /\ InitRequests({})
    /\ label = NoElement
    /\ totalReviews = NotRead
    /\ query \in Queries
    /\ cacheKey = NoKey
    /\ ItemIdle
    /\ DashIdle

ComputeKey ==
    /\ cacheKey = NoKey
    /\ cacheKey' = CacheKey(query)
    /\ UNCHANGED <<now, cache, pc, searchTerm, skipCache, attempt, lastError,
                   delay, browser, businessInfo, outcome, response, calls,
                   launches, opened, closes, thrown, served, prevDelay,
                   scrapedAt, issuedAt, prior, query>>
    /\ UNCHANGED <<scrollVars, infoVars, idVars, hasConsent, infoThrew,
                   itemVars, dashVars>>

NextKey == ComputeKey

SpecKey == InitKey /\ [][NextKey]_vars

(***************************************************************************)
(* Two overlapping requests whose attempts run the scroll loop.  The       *)
(* environment of SpecShare is narrowed to keep the product of the two     *)
(* requests small: the clock stands still, skipCache is absent, only the   *)
(* first puppeteer.launch of a request may fail, no other browser          *)
(* operation throws or times out, no consent button shows, the page has    *)
(* no business summary and its feed shows no review and reveals at most    *)
(* one, on the first scroll.  Every behaviour of SpecShare is a behaviour  *)
(* of the server.                                                          *)
(***************************************************************************)
ShareEnv ==
    \A r \in Reqs :
        /\ searchTerm'[r] \in ScrollTerms
        /\ ~skipCache'[r]
        /\ lastError'[r] \in {NoErr, Err("LaunchFailure", 0)}
        /\ delay'[r] \in {0, RetryMin(0)}
        /\ ~HasError(outcome'[r]) \/ outcome'[r] = NoResult
        /\ businessInfo'[r] = NoInfo
        /\ hasConsent'[r] \in {"none", "absent"}
        /\ ~infoThrew'[r]
        /\ feed'[r].kind \in {"none", "grows"}
        /\ feed'[r].initial = 0
        /\ feed'[r].step <= 1
        /\ feed'[r].reveals <= 1

NextShare ==
    \E r \in Reqs :
        \/ Receive(r) /\ ShareEnv
        \/ LaunchDone(r) /\ ShareEnv
        \/ Navigate(r) /\ ShareEnv
        \/ Consent(r) /\ ShareEnv
        \/ ExtractBusiness(r) /\ ShareEnv
        \/ FeedEntry(r) /\ ShareEnv
        \/ Container(r) /\ ShareEnv
        \/ ScrollStart(r) /\ ShareEnv
        \/ ScrollIteration(r) /\ ShareEnv
        \/ CloseDone(r) /\ ShareEnv
        \/ DelayElapsed(r) /\ ShareEnv

SpecShare == InitPair /\ [][NextShare]_vars
(***************************************************************************)
(* extractReviews, lines 261-278, over the review items of a document:     *)
(* the callback of map is called on each of the nodeCount items in turn.   *)
(***************************************************************************)
InitItem ==
    /\ now = 0
    /\ cache = <<>>
    /\ InitRequests({})
    /\ label = NoElement
    /\ totalReviews = NotRead
    /\ query = <<>>
    /\ cacheKey = NoKey
    /\ nodeCount \in 0..MaxItems
    /\ reviewItem = NoReviewItem
    /\ record = NoRecord
    /\ visited = 0
    /\ produced = 0
    /\ DashIdle

VisitItem ==
    /\ visited < nodeCount
    /\ \E item \in ReviewItems :
          /\ reviewItem' = item
          /\ record' = recordOf(item)
    /\ visited' = visited + 1
    /\ produced' = produced + 1
    /\ UNCHANGED <<now, cache, pc, searchTerm, skipCache, attempt, lastError,
                   delay, browser, businessInfo, outcome, response, calls,
                   launches, opened, closes, thrown, served, prevDelay,
                   scrapedAt, issuedAt, prior, nodeCount>>
    /\ UNCHANGED <<scrollVars, infoVars, keyVars, idVars, hasConsent,
                   infoThrew, dashVars>>

NextItem == VisitItem

SpecItem == InitItem /\ [][NextItem]_vars
(***************************************************************************)
(* Dashboard, the component with handleSearch: the search state and the    *)
(* handlers the rendered elements call.  An element that is not rendered   *)
(* or is disabled in the last render receives no event; state set in an    *)
(* event handler is rendered before the next event.  The error banner and  *)
(* the PDF export (error, downloading) are left out: they read             *)
(* searchResults and write neither it nor loading, selected or input.      *)
(***************************************************************************)
InitDash ==
    /\ now = 0
    /\ cache = <<>>
    /\ InitRequests({})
    /\ label = NoElement
    /\ totalReviews = NotRead
    /\ query = <<>>
    /\ cacheKey = NoKey
    /\ ItemIdle
    /\ DashIdle

\* The effect on [input], lines 152-178, run for the new input.
InputEffect(value) ==
    IF Len(value) > 2
    THEN /\ fetching < MaxFetches
         /\ fetching' = fetching + 1
         /\ UNCHANGED predictions
    ELSE /\ predictions' = FALSE
         /\ UNCHANGED fetching

\* handleSearch, lines 26-32, up to the await of fetch.
StartSearch ==
    /\ issued < MaxSearches
    /\ loading' = TRUE
    /\ selected' = TRUE
    /\ issued' = issued + 1
    /\ inFlight' = inFlight \cup {issued + 1}

\* Line 235: the suggestion list is rendered; line 241: with suggestions.
ListRendered == input # <<>> /\ ~selected /\ predictions

\* Line 278: the search button is enabled.
ButtonEnabled == ~(loading \/ trim(input) = <<>>)

DashFrame ==
    UNCHANGED <<now, cache, pc, searchTerm, skipCache, attempt, lastError,
                delay, browser, businessInfo, outcome, response, calls,
                launches, opened, closes, thrown, served, prevDelay,
                scrapedAt, issuedAt, prior, scrollVars, infoVars, keyVars,
                idVars, hasConsent, infoThrew, itemVars>>

\* CommandInput, lines 228-233: onValueChange = setInput.
TypeInput ==
    /\ \E value \in Inputs \ {input} :
          /\ input' = value
          /\ InputEffect(value)
    /\ UNCHANGED <<loading, selected, searchResults, issued, inFlight>>
    /\ DashFrame

\* fetchPredictions, lines 153-171: autocomplete returns or throws.
PredictionsArrive ==
    /\ fetching > 0
    /\ fetching' = fetching - 1
    /\ predictions' \in BOOLEAN
    /\ UNCHANGED <<input, loading, selected, searchResults, issued, inFlight>>
    /\ DashFrame

\* CommandItem onSelect, line 253: handleSuggestionSelect, lines 50-53.
SelectSuggestion ==
    /\ ListRendered
    /\ \E description \in Descriptions :
          /\ input' = description
          /\ IF description = input
             THEN UNCHANGED <<predictions, fetching>>
             ELSE InputEffect(description)
    /\ StartSearch
    /\ UNCHANGED searchResults
    /\ DashFrame

\* The search button, lines 271-279: onClick = handleSearch(input).
ClickSearch ==
    /\ ButtonEnabled
    /\ StartSearch
    /\ UNCHANGED <<input, searchResults, predictions, fetching>>
    /\ DashFrame

\* handleSearch, lines 32-47, from the await of fetch on: the response is
\* ok and parsed (lines 38-39), or fetch or json threw or the status was
\* not ok (lines 34-36, 40-42); then the finally clause.
SearchReturns ==
    /\ \E k \in inFlight :
          /\ inFlight' = inFlight \ {k}
          /\ \/ searchResults' = k
             \/ UNCHANGED searchResults
    /\ loading' = FALSE
    /\ selected' = FALSE
    /\ UNCHANGED <<input, predictions, fetching, issued>>
    /\ DashFrame

NextDash ==
    \/ TypeInput
    \/ PredictionsArrive
    \/ SelectSuggestion
    \/ ClickSearch
    \/ SearchReturns

SpecDash == InitDash /\ [][NextDash]_vars
(***************************************************************************)
(* Properties.                                                             *)
(***************************************************************************)
Arrived(r) == pc[r] \notin {"idle", "off"}
InAttempt(r) ==
    pc[r] \in {"navigate", "consent", "business", "feedEntry", "container", "scroll",
              "scrolling"}
TtlMs == CACHE_TTL * 1000

\* C1: a request whose searchTerm is missing or empty is answered 400
\* (InvalidQuery) at once: fn is never called, no browser is launched, no
\* session is opened.
C1_InvalidQueryRejected ==
    \A r \in Reqs :
        (Arrived(r) /\ (searchTerm[r] = Null \/ Len(searchTerm[r]) = 0))
            => /\ pc[r] = "done"
               /\ response[r].status = 400
               /\ calls[r] = 0
               /\ launches[r] = 0
               /\ opened[r] = 0

C1_Witness ==
    \E r \in Reqs :
        pc[r] = "done" /\ Len(searchTerm[r]) = 0 /\ response[r].status = 400

\* C2: browser.close() is called exactly once for every session an attempt
\* opened, before the attempt returns, on every exit path of the attempt;
\* no request is answered while a session it opened has not been closed.
C2_SessionClosedOnce ==
    \A r \in Reqs :
        /\ InAttempt(r) => (browser[r] = "open" /\ opened[r] = closes[r] + 1)
        /\ ~InAttempt(r) => closes[r] = opened[r]
        /\ pc[r] \in {"done", "backoff", "launching"} => browser[r] # "open"

C2_Witness ==
    \E r \in Reqs :
        /\ pc[r] = "done"
        /\ response[r].status = 404
        /\ response[r].error = TechnicalIssue
        /\ opened[r] = 1
        /\ closes[r] = 1

\* C3 (as claimed): a request with skipCache=false that arrives less than a
\* TTL after a request with the same cache key was answered from a scrape
\* launches no browser and returns the same body.
C3_CacheIdempotence ==
    \A r1, r2 \in Reqs :
        (/\ r1 \in prior[r2]
         /\ ~skipCache[r1]
         /\ ~skipCache[r2]
         /\ Arrived(r2)
         /\ searchTerm[r2] # Null
         /\ CacheKey(searchTerm[r1]) = CacheKey(searchTerm[r2]))
            => /\ launches[r2] = 0
               /\ pc[r2] = "done"
               /\ response[r2] = response[r1]

\* C4 (as claimed): once a request has been answered from a scrape, the
\* cache holds under its key the returned result, stamped with the time of
\* the scrape.
C4_CacheWrittenAfterScrape ==
    \A r \in Reqs :
        served[r] = "scrape"
            => /\ CacheKey(searchTerm[r]) \in DOMAIN cache
               /\ cache[CacheKey(searchTerm[r])].data = response[r].body
               /\ cache[CacheKey(searchTerm[r])].timestamp = scrapedAt[r]

\* C5: a request with skipCache=true and a non-empty query is never
\* answered from the cache; it always runs a scrape, also when the cache
\* holds a fresh entry under its key.
C5_SkipCacheAlwaysScrapes ==
    \A r \in Reqs :
        (Arrived(r) /\ skipCache[r] /\ searchTerm[r] # Null /\ Len(searchTerm[r]) > 0)
            => /\ served[r] # "cache"
               /\ launches[r] >= 1

C5_Witness ==
    \E r \in Reqs :
        /\ skipCache[r]
        /\ served[r] = "scrape"
        /\ CacheKey(searchTerm[r]) \in DOMAIN cache
        /\ issuedAt[r] - cache[CacheKey(searchTerm[r])].timestamp < TtlMs

\* C6: an entry whose age has reached the TTL at lookup time is never
\* served: a request is answered from the cache only if the entry under its
\* key is younger than the TTL when the request arrives, and a request that
\* finds an entry of age >= TTL scrapes.  The stale entry is not evicted.
C6_StaleEntryNotServed ==
    \A r \in Reqs :
        LET key == CacheKey(searchTerm[r]) IN
        /\ served[r] = "cache"
              => /\ key \in DOMAIN cache
                 /\ issuedAt[r] - cache[key].timestamp < TtlMs
                 /\ response[r].body = cache[key].data
        /\ (/\ Arrived(r)
            /\ searchTerm[r] # Null
            /\ key \in DOMAIN cache
            /\ issuedAt[r] - cache[key].timestamp >= TtlMs)
              => /\ served[r] # "cache"
                 /\ launches[r] >= 1

C6_Witness ==
    \E r \in Reqs :
        LET key == CacheKey(searchTerm[r]) IN
        /\ Arrived(r)
        /\ ~skipCache[r]
        /\ key \in DOMAIN cache
        /\ issuedAt[r] - cache[key].timestamp = TtlMs
        /\ launches[r] = 1

\* C7: withRetry calls fn at most maxRetries times; when it throws, every
\* call has thrown, fn has been called exactly maxRetries times and the
\* error thrown is the one the last call threw.
C7_RetryExhaustion ==
    \A r \in Reqs :
        /\ calls[r] <= RETRY_ATTEMPTS
        /\ thrown[r] # NoErr
              => /\ calls[r] = RETRY_ATTEMPTS
                 /\ thrown[r].at = RETRY_ATTEMPTS - 1
                 /\ thrown[r] = lastError[r]
                 /\ served[r] = "none"
        /\ (pc[r] = "done" /\ response[r].status = 500) => thrown[r] # NoErr

C7_Witness ==
    \E r \in Reqs :
        /\ thrown[r].kind = "LaunchFailure"
        /\ calls[r] = RETRY_ATTEMPTS
        /\ opened[r] = 0

\* C8 (as claimed): every inter-attempt delay is strictly greater than the
\* one before it.
C8_DelaysStrictlyIncreasing ==
    \A r \in Reqs :
        (pc[r] = "backoff" /\ attempt[r] >= 1) => delay[r] > prevDelay[r]

\* C8 (amended): the delay after failed attempt i lies in the band
\* [1000 * 2^i, 3000 * 2^i], whose two bounds strictly increase with i; the
\* delay is strictly greater than the one before it whenever that one was
\* drawn below 2000 * 2^(i-1), the bottom of the later band.
C8_DelayBandsIncreasing ==
    \A r \in Reqs :
        pc[r] = "backoff"
            => /\ delay[r] >= 1000 * 2^attempt[r]
               /\ delay[r] <= 3000 * 2^attempt[r]
               /\ attempt[r] >= 1
                    => /\ prevDelay[r] >= 1000 * 2^(attempt[r] - 1)
                       /\ prevDelay[r] <= 3000 * 2^(attempt[r] - 1)
                       /\ prevDelay[r] < 1000 * 2^attempt[r]
                             => delay[r] > prevDelay[r]

C8_Witness ==
    \E r \in Reqs :
        /\ pc[r] = "backoff"
        /\ attempt[r] = 1
        /\ prevDelay[r] = 1000
        /\ delay[r] = 6000

C10_TechnicalFailureRetried ==
    \A r \in Reqs :
        (pc[r] = "done" /\ response[r].error = TechnicalIssue)
            => attempt[r] = RETRY_ATTEMPTS - 1

\* C11 (as claimed): a request that ends in a technical failure (a
\* navigation timeout or an extraction throw caught at line 205, or a launch
\* failure) is answered 500, never 404.
C11_TechnicalFailureIs500 ==
    \A r \in Reqs :
        (pc[r] = "done" /\ (response[r].error = TechnicalIssue \/ thrown[r] # NoErr))
            => response[r].status = 500

\* C12: a request whose final outcome is NoFeedFound or FeedContainerMissing
\* is answered 404 with that outcome and the request id, withRetry has
\* thrown nothing, and fn was called at most RETRY_ATTEMPTS times for it; a
\* 404 never carries anything but an error outcome of an attempt.
C12_NotFoundAnswered ==
    \A r \in Reqs :
        /\ (pc[r] = "done" /\ response[r].error \in {NoFeedFound, FeedContainerMissing})
              => /\ response[r].status = 404
                 /\ response[r].requestId = r
                 /\ thrown[r] = NoErr
                 /\ calls[r] <= RETRY_ATTEMPTS
                 /\ calls[r] = attempt[r] + 1
        /\ response[r].status = 404
              => response[r].error \in {NoFeedFound, FeedContainerMissing, TechnicalIssue}

C12_Witness ==
    \E r \in Reqs :
        /\ pc[r] = "done"
        /\ response[r].status = 404
        /\ response[r].error = FeedContainerMissing
        /\ calls[r] = RETRY_ATTEMPTS

\* C13 (as claimed): when withRetry has thrown, the error in the response
\* names the kind of the error thrown last; it is never the generic failure.
C13_LastKindSurfaced ==
    \A r \in Reqs :
        (pc[r] = "done" /\ thrown[r] # NoErr)
            => /\ response[r].error # GenericFailure
               /\ response[r].error = thrown[r].kind

\* The scroll loop of request r has been left; the iterations it ran.
LoopLeft(r) == loopExit[r] # "none"
Iterations(r) == scrollAttempts[r] + (IF loopExit[r] = "break" THEN 1 ELSE 0)

\* The feed of r stops growing after feed.reveals scrolls, below the cap,
\* and reveals + 1 iterations fit in the scroll-attempt limit.
Stagnates(r) ==
    /\ feed[r].kind = "grows"
    /\ feed[r].initial + feed[r].step * feed[r].reveals < MAX_REVIEWS
    /\ feed[r].reveals + 1 <= MAX_SCROLL_ATTEMPTS

\* The feed of r grows on every scroll the loop can make.
KeepsGrowing(r) ==
    /\ feed[r].kind = "grows"
    /\ feed[r].reveals >= MAX_SCROLL_ATTEMPTS

\* C14 (as claimed): over a feed that stops growing after N reveals, the
\* loop ends within N + 1 iterations with exactly the items present at
\* stagnation, N = 0 included.
C14_ConvergesWithinNPlusOne ==
    \A r \in Reqs :
        (LoopLeft(r) /\ Stagnates(r))
            => /\ Iterations(r) <= feed[r].reveals + 1
               /\ reviews[r] = [i \in 1..(feed[r].initial + feed[r].step * feed[r].reveals) |-> i]

\* C14 (amended): over a feed that stops growing after N reveals, the loop
\* ends by its break with exactly the items present at stagnation, after
\* N + 1 iterations when N >= 1 or the feed is empty, and after 2 iterations
\* when N = 0 and the feed is not empty: previousLength starts at 0, not at
\* the length of the first extraction, so the first iteration over a feed
\* that never grows does not see the stagnation.
C14_ConvergesAfterStagnation ==
    \A r \in Reqs :
        (LoopLeft(r) /\ Stagnates(r))
            => /\ loopExit[r] = "break"
               /\ Iterations(r) =
                     IF feed[r].reveals = 0 /\ feed[r].initial > 0
                     THEN 2 ELSE feed[r].reveals + 1
               /\ reviews[r] = [i \in 1..(feed[r].initial + feed[r].step * feed[r].reveals) |-> i]
               /\ pc[r] = "closing" => outcome[r].reviews = reviews[r]

C14_Witness ==
    \E r \in Reqs :
        /\ loopExit[r] = "break"
        /\ feed[r].kind = "grows"
        /\ feed[r].reveals = 0
        /\ feed[r].initial = 3
        /\ Iterations(r) = 2
        /\ Len(reviews[r]) = 3

\* C15 (as claimed): over a feed that keeps growing, the loop stops as soon
\* as the extracted count reaches MAX_REVIEWS and returns no more than
\* MAX_REVIEWS items.
C15_CapRespected ==
    \A r \in Reqs :
        (loopExit[r] = "break" /\ KeepsGrowing(r))
            => /\ Len(newReviews[r]) >= MAX_REVIEWS
               /\ previousLength[r] < MAX_REVIEWS
               /\ Len(reviews[r]) <= MAX_REVIEWS

\* C16 (as claimed): when the loop ends by exhausting MAX_SCROLL_ATTEMPTS
\* over a feed that grew on every iteration and stayed below the cap, it
\* returns the records of the last extraction.
C16_ExhaustionReturnsLast ==
    \A r \in Reqs :
        (loopExit[r] = "exhausted" /\ KeepsGrowing(r))
            => /\ reviews[r] = newReviews[r]
               /\ pc[r] = "closing" => outcome[r].reviews = newReviews[r]

\* C17 (as claimed): totalReviews is omitted whenever the label has no
\* digit; a reported 0 comes from a label that contains the digit 0.
C17_TotalOmittedWithoutDigits ==
    totalReviews # NotRead
        => /\ (label = NoElement \/ stripNonDigits(label) = <<>>)
                 => totalReviews = Undefined
           /\ totalReviews = Number(0)
                 => \E i \in 1..Len(label) : label[i] = "0"

\* C18: over a feed of k static reviews, 0 < k < MAX_REVIEWS, that does not
\* grow on scroll, a request answered 200 carries exactly the k records in
\* feed order and the business summary extractBusinessInfo returned.
C18_StaticFeedReturned ==
    \A r \in Reqs :
        (/\ pc[r] = "done"
         /\ response[r].status = 200
         /\ feed[r].kind = "grows"
         /\ feed[r].reveals = 0
         /\ feed[r].initial > 0
         /\ feed[r].initial < MAX_REVIEWS)
            => /\ Len(response[r].body.reviews) = feed[r].initial
               /\ \A i \in 1..feed[r].initial : response[r].body.reviews[i] = i
               /\ response[r].body.businessInfo = summary[r]
               /\ response[r].body.error = NoError

C18_Witness ==
    \E r \in Reqs :
        /\ pc[r] = "done"
        /\ response[r].status = 200
        /\ feed[r].kind = "grows"
        /\ feed[r].reveals = 0
        /\ feed[r].initial = 3
        /\ response[r].body.reviews = <<1, 2, 3>>
        /\ response[r].body.businessInfo = "Cafe"

\* C19: an attempt whose scroll engine returns zero reviews completes with
\* a success result carrying the business summary and an empty review
\* sequence, and the request it answers gets 200 with that result, never an
\* error response.
C19_ZeroReviewsIsSuccess ==
    \A r \in Reqs :
        (LoopLeft(r) /\ reviews[r] = <<>>)
            => /\ pc[r] \in {"closing", "done"}
               /\ pc[r] = "closing" => outcome[r] = ScrapeResult(summary[r], <<>>)
               /\ pc[r] = "done"
                     => /\ response[r].status = 200
                        /\ response[r].error = NoError
                        /\ response[r].body = ScrapeResult(summary[r], <<>>)

C19_Witness ==
    \E r \in Reqs :
        /\ pc[r] = "done"
        /\ loopExit[r] = "break"
        /\ feed[r].initial = 0
        /\ response[r].status = 200
        /\ response[r].body.reviews = <<>>
        /\ response[r].body.businessInfo = "Cafe"

\* C20: under Fairness (every awaited browser operation and delay settles)
\* every request that arrives is eventually answered and stays answered,
\* whatever fails on the way, and the response it was given never changes:
\* neither the retry loop nor the scroll loop runs for ever.
C20_EveryRequestAnswered ==
    /\ \A r \in Reqs :
          (pc[r] = "idle") ~> [](pc[r] = "done" /\ response[r] # NoResponse)
    /\ [][\A r \in Reqs :
             response[r] # NoResponse => response'[r] = response[r]]_vars

C20_Witness ==
    \E r \in Reqs :
        /\ pc[r] = "done"
        /\ attempt[r] = RETRY_ATTEMPTS - 1
        /\ lastError[r].kind = "CloseFailure"
        /\ loopExit[r] = "exhausted"
        /\ feed[r].kind = "flaps"
        /\ scrollAttempts[r] = MAX_SCROLL_ATTEMPTS

\* C21: a request gets one requestId when it arrives, distinct from that of
\* every other request; every call of scrapeMapReviews made for it is given
\* that requestId, and its 400, 404 and 500 responses carry it.
C21_OneRequestId ==
    \A r \in Reqs :
        /\ Arrived(r) => requestId[r] # 0
        /\ \A q \in Reqs \ {r} : (Arrived(r) /\ Arrived(q)) => requestId[q] # requestId[r]
        /\ passedId[r] \subseteq {requestId[r]}
        /\ calls[r] > 0 => passedId[r] = {requestId[r]}
        /\ (pc[r] = "done" /\ response[r].status \in {400, 404, 500})
              => response[r].requestId = requestId[r]

C21_Witness ==
    \E r \in Reqs :
        /\ pc[r] = "done"
        /\ response[r].status = 500
        /\ calls[r] = RETRY_ATTEMPTS
        /\ passedId[r] = {requestId[r]}
        /\ response[r].requestId = requestId[r]

\* C22: the cache key is the percent-encoded lower-cased query: it holds no
\* upper-case letter and no unescaped space, and another query has the same
\* key exactly when the two queries are equal after lower-casing (so queries
\* that differ only in letter case share a key, and queries that differ
\* after lower-casing do not).
C22_CacheKeyNormalised ==
    cacheKey # NoKey
        => /\ \A i \in 1..Len(cacheKey) : cacheKey[i] \notin {"A", " "}
           /\ \A q \in Queries :
                 (CacheKey(q) = cacheKey) <=> (toLowerCase(q) = toLowerCase(query))

C22_Witness ==
    /\ query = <<"A", " ", "%">>
    /\ cacheKey = <<"a", "%", "2", "0", "%", "2", "5">>

\* Request r completes an iteration of the scroll loop in this step: the
\* re-extraction did not throw, and the loop was left or counted on.
IterationDone(r) ==
    /\ pc[r] = "scrolling"
    /\ feed'[r] # NoFeed
    /\ pc'[r] # "scrolling" \/ scrollAttempts'[r] # scrollAttempts[r]

\* C23: previousLength is 0 before the first iteration and the count of the
\* previous iteration afterwards; an iteration whose re-extracted count n
\* equals previousLength or reaches MAX_REVIEWS leaves the loop and returns
\* its own extraction; any other iteration records n in previousLength,
\* increments scrollAttempts and keeps `reviews`.
C23_ConvergenceRule ==
    /\ [](\A r \in Reqs :
             pc[r] = "scrolling"
                => previousLength[r] =
                      IF scrollAttempts[r] = 0 THEN 0 ELSE Len(newReviews[r]))
    /\ [][\A r \in Reqs :
             IterationDone(r)
                => IF \/ Len(newReviews'[r]) = previousLength[r]
                      \/ Len(newReviews'[r]) >= MAX_REVIEWS
                   THEN /\ loopExit'[r] = "break"
                        /\ pc'[r] = "closing"
                        /\ reviews'[r] = newReviews'[r]
                        /\ outcome'[r].reviews = newReviews'[r]
                        /\ scrollAttempts'[r] = scrollAttempts[r]
                   ELSE /\ previousLength'[r] = Len(newReviews'[r])
                        /\ scrollAttempts'[r] = scrollAttempts[r] + 1
                        /\ reviews'[r] = reviews[r]
                        /\ loopExit'[r] # "break"]_vars

C23_Witness ==
    \E r \in Reqs :
        /\ loopExit[r] = "break"
        /\ scrollAttempts[r] = 3
        /\ previousLength[r] > 0
        /\ Len(newReviews[r]) = previousLength[r]
        /\ reviews[r] = newReviews[r]

\* C24: whatever the feed does, scrollAttempts never exceeds
\* MAX_SCROLL_ATTEMPTS and the loop runs at most MAX_SCROLL_ATTEMPTS
\* iterations; when the limit is exhausted the function returns, the attempt
\* completes with a success result and the request it answers gets 200.
C24_ScrollAttemptsBounded ==
    \A r \in Reqs :
        /\ scrollAttempts[r] <= MAX_SCROLL_ATTEMPTS
        /\ Iterations(r) <= MAX_SCROLL_ATTEMPTS
        /\ pc[r] = "scrolling" => scrollAttempts[r] < MAX_SCROLL_ATTEMPTS
        /\ loopExit[r] = "exhausted"
              => /\ scrollAttempts[r] = MAX_SCROLL_ATTEMPTS
                 /\ pc[r] \in {"closing", "done"}
                 /\ pc[r] = "closing" => outcome[r].error = NoError
                 /\ pc[r] = "done"
                       => response[r].status = 200 /\ response[r].error = NoError

C24_Witness ==
    \E r \in Reqs :
        /\ pc[r] = "done"
        /\ loopExit[r] = "exhausted"
        /\ feed[r].kind = "grows"
        /\ scrollAttempts[r] = MAX_SCROLL_ATTEMPTS
        /\ response[r].status = 200

\* The step that follows each step of an attempt when nothing fails.
Successor(at) ==
    CASE at = "navigate" -> "consent"
      [] at = "consent" -> "business"
      [] at = "business" -> "feedEntry"
      [] at = "feedEntry" -> "container"
      [] at = "container" -> "scroll"
      [] at = "scroll" -> "scrolling"
      [] OTHER -> "scrolling"

\* C25: within an attempt the steps follow one another in the order page
\* load, consent handling, business extraction, feed entry, container wait,
\* scroll loop, each one either followed by the next or ending the attempt;
\* nothing has been extracted from the feed before the container wait has
\* succeeded; in the loop every re-extraction has seen the feed after as
\* many scrolls as iterations were run; and an attempt that ends with
\* NoFeedFound or FeedContainerMissing has run no scroll iteration.
C25_StepsSequential ==
    /\ [](\A r \in Reqs :
             /\ pc[r] \in {"navigate", "consent", "business", "feedEntry",
                           "container", "scroll"}
                   => /\ feed[r] = NoFeed
                      /\ reviews[r] = <<>>
                      /\ newReviews[r] = <<>>
                      /\ loopExit[r] = "none"
             /\ pc[r] = "scrolling"
                   => /\ Len(IF scrollAttempts[r] = 0 THEN reviews[r]
                             ELSE newReviews[r]) = feed[r].count
                      /\ (feed[r].kind = "grows" /\ feed[r].left > 0)
                            => feed[r].reveals - feed[r].left = scrollAttempts[r]
             /\ (/\ pc[r] \in {"closing", "done"}
                 /\ \/ outcome[r].error \in {NoFeedFound, FeedContainerMissing}
                    \/ response[r].error \in {NoFeedFound, FeedContainerMissing})
                   => /\ feed[r] = NoFeed
                      /\ scrollAttempts[r] = 0
                      /\ loopExit[r] = "none")
    /\ [][\A r \in Reqs :
             (InAttempt(r) /\ pc'[r] # pc[r])
                => pc'[r] \in {Successor(pc[r]), "closing"}]_vars

C25_Witness ==
    \E r \in Reqs :
        /\ pc[r] = "scrolling"
        /\ scrollAttempts[r] = 2
        /\ feed[r].reveals - feed[r].left = 2
        /\ Len(newReviews[r]) = feed[r].count
        /\ Len(reviews[r]) = feed[r].initial

\* C26: whatever becomes of the consent lookup (button absent, clicked,
\* found but not clickable, or a throw), handleConsentIfNeeded returns
\* normally: the attempt goes on to business extraction and from there to
\* the feed-entry wait, nothing of the attempt or of the request is changed
\* by it, and nothing of it remains once it has returned.
C26_ConsentNonFatal ==
    /\ [](\A r \in Reqs :
             /\ pc[r] = "business" => hasConsent[r] \in ConsentOutcomes
             /\ pc[r] # "business" => hasConsent[r] = "none")
    /\ [][\A r \in Reqs :
             /\ (pc[r] = "consent" /\ pc'[r] # "consent")
                   => /\ pc'[r] = "business"
                      /\ outcome'[r] = outcome[r]
                      /\ businessInfo'[r] = businessInfo[r]
                      /\ browser'[r] = browser[r]
                      /\ closes'[r] = closes[r]
                      /\ lastError'[r] = lastError[r]
                      /\ response'[r] = response[r]
             /\ (pc[r] = "business" /\ pc'[r] # "business")
                   => pc'[r] = "feedEntry"]_vars

C26_Witness ==
    \E r \in Reqs :
        /\ pc[r] = "business"
        /\ hasConsent[r] = "threw"
        /\ browser[r] = "open"
        /\ outcome[r] = NoResult

\* C27: while withRetry waits after failed attempt i, i < maxRetries - 1 and
\* the delay lies in [1000 * 2^i, 3000 * 2^i]; no delay is pending at any
\* other time; the step in which withRetry rethrows is the failure of the
\* last attempt itself, so the last delay waited is the one after attempt
\* maxRetries - 2.
C27_BackoffBand ==
    /\ [](\A r \in Reqs :
             /\ pc[r] = "backoff"
                   => /\ attempt[r] < RETRY_ATTEMPTS - 1
                      /\ lastError[r].at = attempt[r]
                      /\ delay[r] >= 1000 * 2^attempt[r]
                      /\ delay[r] <= 3000 * 2^attempt[r]
             /\ pc[r] # "backoff" => delay[r] = 0
             /\ thrown[r] # NoErr
                   => /\ attempt[r] = RETRY_ATTEMPTS
                      /\ prevDelay[r] >= 1000 * 2^(RETRY_ATTEMPTS - 2)
                      /\ prevDelay[r] <= 3000 * 2^(RETRY_ATTEMPTS - 2))
    /\ [][\A r \in Reqs :
             thrown'[r] # thrown[r]
                => /\ pc[r] \in {"launching", "closing"}
                   /\ attempt[r] = RETRY_ATTEMPTS - 1
                   /\ lastError'[r].at = RETRY_ATTEMPTS - 1
                   /\ pc'[r] = "done"]_vars

C27_Witness ==
    \E r \in Reqs :
        /\ pc[r] = "backoff"
        /\ attempt[r] = 1
        /\ delay[r] = 4000
        /\ prevDelay[r] = 2000

\* C28: a request answered with what withRetry returned was answered by the
\* first call of fn that did not throw: every earlier call threw, no call
\* and no delay follows it, the launches are as many as the calls, exactly
\* one when the first attempt completes, and the 200 body is the value that
\* attempt returned.
C28_FirstCompletedAttemptReturned ==
    /\ [](\A r \in Reqs :
             (pc[r] = "done" /\ response[r].status \in {200, 404} /\ served[r] # "cache")
                => /\ calls[r] = attempt[r] + 1
                   /\ launches[r] = calls[r]
                   /\ thrown[r] = NoErr
                   /\ delay[r] = 0
                   /\ attempt[r] = 0 => (launches[r] = 1 /\ lastError[r] = NoErr)
                   /\ attempt[r] > 0 => lastError[r].at = attempt[r] - 1)
    /\ [][\A r \in Reqs :
             /\ (pc[r] = "closing" /\ pc'[r] = "done" /\ response'[r].status = 200)
                   => response'[r].body = outcome[r]
             /\ pc[r] = "done"
                   => (pc'[r] = "done" /\ calls'[r] = calls[r]
                       /\ launches'[r] = launches[r])]_vars

C28_Witness ==
    \E r \in Reqs :
        /\ pc[r] = "done"
        /\ response[r].status = 200
        /\ attempt[r] = 1
        /\ calls[r] = 2
        /\ launches[r] = 2
        /\ lastError[r].kind = "LaunchFailure"

\* C29: a failing puppeteer.launch opens no session and calls no close; the
\* throw reaches withRetry, which waits the backoff delay and calls fn again
\* (a new launch), or, when it was the last attempt, rethrows; a request
\* whose every launch failed is answered 500.
C29_LaunchFailureRetried ==
    /\ [](\A r \in Reqs :
             /\ opened[r] = 0 => (closes[r] = 0 /\ browser[r] = "none")
             /\ (pc[r] = "done" /\ launches[r] = RETRY_ATTEMPTS /\ opened[r] = 0)
                   => (response[r].status = 500 /\ thrown[r].kind = "LaunchFailure"))
    /\ [][\A r \in Reqs :
             /\ (pc[r] = "launching" /\ lastError'[r] # lastError[r])
                   => /\ lastError'[r] = Err("LaunchFailure", attempt[r])
                      /\ opened'[r] = opened[r]
                      /\ closes'[r] = closes[r]
                      /\ browser'[r] = browser[r]
                      /\ IF attempt[r] < RETRY_ATTEMPTS - 1
                         THEN pc'[r] = "backoff" /\ delay'[r] > 0
                         ELSE /\ pc'[r] = "done"
                              /\ response'[r].status = 500
                              /\ thrown'[r] = lastError'[r]
             /\ (pc[r] = "backoff" /\ pc'[r] # "backoff")
                   => /\ pc'[r] = "launching"
                      /\ launches'[r] = launches[r] + 1
                      /\ attempt'[r] = attempt[r] + 1]_vars

C29_Witness ==
    \E r \in Reqs :
        /\ pc[r] = "done"
        /\ response[r].status = 500
        /\ launches[r] = RETRY_ATTEMPTS
        /\ opened[r] = 0
        /\ closes[r] = 0
        /\ prevDelay[r] >= 2000

\* C30: when browser.close() throws at the end of an attempt, the attempt
\* throws: whatever it was about to return (a result, NoFeedFound, ...) is
\* dropped and never answered, and withRetry handles the throw like any
\* other, with a backoff and a new call, or a rethrow after the last attempt.
C30_CloseFailureReplacesOutcome ==
    [][\A r \in Reqs :
          (pc[r] = "closing" /\ lastError'[r] # lastError[r])
             => /\ lastError'[r] = Err("CloseFailure", attempt[r])
                /\ outcome'[r] = NoResult
                /\ served'[r] = served[r]
                /\ IF attempt[r] < RETRY_ATTEMPTS - 1
                   THEN /\ pc'[r] = "backoff"
                        /\ response'[r] = NoResponse
                   ELSE /\ pc'[r] = "done"
                        /\ response'[r].status = 500
                        /\ response'[r].body = NoResult
                        /\ thrown'[r] = lastError'[r]]_vars

C30_Witness ==
    \E r \in Reqs :
        /\ pc[r] = "done"
        /\ response[r].status = 200
        /\ lastError[r] = Err("CloseFailure", 0)
        /\ calls[r] = 2
        /\ closes[r] = 2

\* C31: a request never has more than one session that was opened and not
\* yet handed to browser.close(); puppeteer.launch is called for the next
\* attempt only when every session the request opened has had its close
\* call settled, the previous attempt having ended in that close or in a
\* failed launch.
C31_OneOpenSession ==
    /\ [](\A r \in Reqs :
             /\ opened[r] - closes[r] \in {0, 1}
             /\ browser[r] = "open" => opened[r] = attempt[r] + 1 - (launches[r] - opened[r])
             /\ opened[r] <= launches[r])
    /\ [][\A r \in Reqs :
             /\ launches'[r] # launches[r]
                   => /\ launches'[r] = launches[r] + 1
                      /\ browser[r] # "open"
                      /\ closes[r] = opened[r]
                      /\ pc[r] \in {"idle", "backoff"}
                      /\ pc[r] = "backoff"
                            => lastError[r].kind \in {"LaunchFailure", "CloseFailure"}
             /\ opened'[r] # opened[r]
                   => /\ opened'[r] = opened[r] + 1
                      /\ browser[r] # "open"
                      /\ closes[r] = opened[r]]_vars

C31_Witness ==
    \E r \in Reqs :
        /\ browser[r] = "open"
        /\ attempt[r] = 1
        /\ opened[r] = 2
        /\ closes[r] = 1
        /\ lastError[r].kind = "CloseFailure"

\* C32: the step in which a request is answered 400, 404 or 500 leaves the
\* cache as it was, and so does every other step of a request except the
\* one that answers it 200: a request that ends in an error response has
\* created, replaced and removed no entry.
C32_ErrorLeavesCache ==
    [][\A r \in Reqs :
          /\ (response'[r] # response[r] /\ response'[r].status \in {400, 404, 500})
                => cache' = cache
          /\ (pc'[r] # pc[r] /\ ~(pc'[r] = "done" /\ response'[r].status = 200))
                => cache' = cache]_vars

C32_Witness ==
    \E r \in Reqs :
        /\ pc[r] = "done"
        /\ response[r].status = 404
        /\ CacheKey(searchTerm[r]) \in DOMAIN cache
        /\ cache[CacheKey(searchTerm[r])].data = CachedData

\* Everything a request holds in the variables of its own invocation of GET,
\* withRetry, scrapeMapReviews and scrapeReviewsWithScrolling.
Private(q) ==
    <<pc[q], searchTerm[q], skipCache[q], requestId[q], attempt[q],
      lastError[q], delay[q], browser[q], businessInfo[q], outcome[q],
      response[q], feed[q], reviews[q], newReviews[q], previousLength[q],
      scrollAttempts[q], hasConsent[q], infoThrew[q], calls[q], launches[q],
      opened[q], closes[q]>>

\* C33: every step of the server is the step of one request and changes
\* nothing that another request holds (its browser session, its attempt
\* counter, its scroll counters, ...), whatever the interleaving; a step
\* reads of the module state only the cache, and every entry of the cache
\* is a complete (data, timestamp) record.  No statement of route.ts writes
\* the cache, so no entry, whole or partial, ever becomes readable.
C33_OnlyCacheShared ==
    /\ [](/\ \A k \in DOMAIN cache :
                /\ DOMAIN cache[k] = {"data", "timestamp"}
                /\ ~HasError(cache[k].data)
          /\ DOMAIN cache = {})
    /\ [][\E r \in Reqs : \A q \in Reqs \ {r} : Private(q)' = Private(q)]_vars

C33_Witness ==
    \E r, q \in Reqs :
        /\ r # q
        /\ pc[r] = "scrolling"
        /\ pc[q] = "scrolling"
        /\ browser[r] = "open"
        /\ browser[q] = "open"
        /\ attempt[r] = 0
        /\ attempt[q] = 1
        /\ scrollAttempts[r] = 1
        /\ scrollAttempts[q] = 0

\* t is s without its leading and trailing spaces.
Spaces(n) == [i \in 1..n |-> " "]
IsTrimOf(t, s) ==
    /\ t = <<>> \/ (t[1] # " " /\ t[Len(t)] # " ")
    /\ \E i, j \in 0..Len(s) : s = Spaces(i) \o t \o Spaces(j)

\* Element el is present and t is its trimmed text, which is not empty.
HasText(el, t) == el \notin {NoElement, NoAttribute} /\ t # <<>> /\ IsTrimOf(t, el)
Texted(el) == \E t \in Texts : HasText(el, t)

\* C34: the reviewText of the record made of a review item is the trimmed
\* text of the expanded element when that element is present and its
\* trimmed text is not empty, otherwise the trimmed text of the collapsed
\* element under the same condition, otherwise 'No review text'.
C34_ReviewTextPolicy ==
    visited > 0
        => /\ Texted(reviewItem.expanded)
                 => HasText(reviewItem.expanded, record.reviewText)
           /\ (~Texted(reviewItem.expanded) /\ Texted(reviewItem.collapsed))
                 => HasText(reviewItem.collapsed, record.reviewText)
           /\ (~Texted(reviewItem.expanded) /\ ~Texted(reviewItem.collapsed))
                 => record.reviewText = NoReviewText

C34_Witness ==
    /\ reviewItem.expanded = <<" ", "x">>
    /\ reviewItem.collapsed = <<"x", "x">>
    /\ record.reviewText = <<"x">>

\* C35: the callback of map returns a record for every review item, one per
\* item, whatever elements the item lacks: fullName is the trimmed name text
\* or 'Anonymous', stars is the trimmed aria-label of the rating element or
\* 'No rating', also when the rating element renders a text.
C35_OptionalFieldsDefaulted ==
    /\ produced = visited
    /\ visited <= nodeCount
    /\ visited > 0
        => /\ record # NoRecord
           /\ IF Texted(reviewItem.name)
              THEN HasText(reviewItem.name, record.fullName)
              ELSE record.fullName = Anonymous
           /\ IF reviewItem.stars.present /\ Texted(reviewItem.stars.label)
              THEN HasText(reviewItem.stars.label, record.stars)
              ELSE record.stars = NoRating

C35_Witness ==
    /\ nodeCount = MaxItems
    /\ produced = nodeCount
    /\ reviewItem.name = <<" ">>
    /\ reviewItem.stars = [present |-> TRUE, label |-> NoAttribute, text |-> <<"x">>]
    /\ record.fullName = Anonymous
    /\ record.stars = NoRating

\* C36: the step in which extractBusinessInfo ends, by a return or by a
\* caught throw, takes the attempt to the wait for the reviews button with
\* its session open and nothing thrown or returned; after a caught throw
\* businessInfo is {} and stays {} up to the response, and the attempt's
\* outcome is the one the later steps give it: any of the outcomes an
\* attempt can have.
C36_BusinessInfoNonFatal ==
    /\ [](\A r \in Reqs :
             /\ (infoThrew[r] /\ pc[r] \in {"feedEntry", "container", "scroll", "scrolling"})
                   => (businessInfo[r] = NoInfo /\ browser[r] = "open")
             /\ (infoThrew[r] /\ pc[r] = "done" /\ response[r].status = 200)
                   => response[r].body.businessInfo = NoInfo)
    /\ [][\A r \in Reqs :
             pc[r] = "business"
                => /\ pc'[r] \in {"business", "feedEntry"}
                   /\ pc'[r] = "feedEntry"
                         => /\ browser'[r] = "open"
                            /\ outcome'[r] = outcome[r]
                            /\ lastError'[r] = lastError[r]
                            /\ attempt'[r] = attempt[r]
                            /\ closes'[r] = closes[r]
                            /\ response'[r] = NoResponse
                            /\ infoThrew'[r] => businessInfo'[r] = NoInfo]_vars

C36_Witness ==
    \E r \in Reqs :
        /\ infoThrew[r]
        /\ pc[r] = "done"
        /\ response[r].status = 200
        /\ response[r].body.reviews # <<>>
        /\ attempt[r] = 0

\* The Dashboard never has two searches outstanding: while one is, loading
\* and selected are set, the button is disabled and the suggestion list is
\* not rendered.
SearchesNeverOverlap ==
    /\ Cardinality(inFlight) <= 1
    /\ loading = (inFlight # {})
    /\ selected = loading
    /\ inFlight # {} => (~ListRendered /\ ~ButtonEnabled)

SecondSearchIssued ==
    /\ issued = 2
    /\ inFlight = {2}
    /\ searchResults = 1

====
